---- MODULE Spec2Model ----
(***************************************************************************)
(* Career-Navigator client: ResumeUpload, JobList and RoadmapDialog, the   *)
(* three components App composes around one shared QueryClient.            *)
(*                                                                         *)
(* The state is the React state of the components (file, resumeId,         *)
(* selectedJob), the state of the upload mutation, the query cache of the  *)
(* QueryClient (one entry per ['jobs', resumeId] and per                   *)
(* ['roadmap', resumeId, jobTitle]) and the HTTP requests outstanding at   *)
(* the backend.  Time is counted in periods of five minutes, the unit of   *)
(* the two timers of the cache (staleTime of the roadmap query, gcTime).   *)
(* Refetches on window focus and on reconnect are outside the model: the   *)
(* window keeps the focus and the network stays up.                        *)
(***************************************************************************)
EXTENDS Integers, Sequences, FiniteSets, TLC

\* ---------------------------------------------------------------- bounds
\* The successful uploads of one page session.
MaxUploads == 2
\* The items of a list of a roadmap response.
MaxItems == 1

\* ------------------------------------------------------ program constants
\* staleTime: 5 * 60 * 1000 ms of the roadmap query: one period.
RoadmapStaleTime == 1
\* The jobs query sets no staleTime: QueryClient default 0.
JobsStaleTime == 0
\* The jobs query sets no retry: new QueryClient() default of 3 for queries.
DefaultQueryRetry == 3
\* Mutant: the roadmap query without its retry option.
RoadmapRetryOmitted == DefaultQueryRetry
\* retry: 2 of the roadmap query.
RoadmapRetry == 2
\* No gcTime anywhere: new QueryClient() default of 5 minutes, one period.
DefaultGcTime == 1

\* ------------------------------------------------------------ value sets
Null == "<null>"          \* useState<string | null>(null)
NoFile == "<no file>"     \* useState<File | null>(null)
NoData == << >>           \* data of a query that never succeeded: undefined
NoKey == << >>            \* no enabled observer

\* Identifiers the upload endpoint may answer with; "" is the falsy answer
\* (a response without a usable id).
ResumeIds == {"r1", "r2"}
UploadAnswers == ResumeIds \cup {""}

\* Titles the match endpoint may list; "" is a job without a title.
JobTitles == {"Data Analyst"}
JobLists == { <<>>, <<"", "Data Analyst">> }

Files == {"resume.pdf"}
RoadmapPlan == "plan"

\* The data of a query that succeeded with value v.
Some(v) == << v >>

\* queryKey: ['jobs', resumeId] and ['roadmap', resumeId, jobTitle]
JobsKey(rid) == << rid >>
RoadmapKey(rid, jobTitle) == << rid, jobTitle >>
JobsKeys == { JobsKey(r) : r \in ResumeIds }
RoadmapKeys == { RoadmapKey(r, t) : r \in ResumeIds, t \in JobTitles \cup {""} }

\* JavaScript truthiness of a string | null: !!x
Truthy(x) == x \notin {Null, ""}

Min(a, b) == IF a < b THEN a ELSE b

Range(s) == { s[i] : i \in 1..Len(s) }

VARIABLES
  file,          \* ResumeUpload: the selected file
  mutation,      \* ResumeUpload: uploadMutation [status, data, failureCount]
  resumeId,      \* App: resumeId
  selectedJob,   \* JobList: selectedJob
  jobsQ,         \* query cache, ['jobs', resumeId]
  roadmapQ,      \* query cache, ['roadmap', resumeId, jobTitle]
  netUpload,     \* POST /resume/upload requests outstanding
  netJobs,       \* GET /jobs/match/{resumeId} requests outstanding, per id
  netRoadmap,    \* POST /career/roadmap requests outstanding, per key
  callbackCount, \* how many times onUploadSuccess was called since the page loaded
  lastClick,     \* the last click on the job list or the dialog, and what
                 \* a click on a card found in the cache
  fresh,         \* the roadmap keys a request succeeded for in this period
  response,      \* RoadmapDialog: the body of a roadmap response (roadmap)
  content        \* RoadmapDialog: what the roadmap block renders for it

\* The page: everything but the rendering of one response body.
pageVars == << file, mutation, resumeId, selectedJob, jobsQ, roadmapQ,
               netUpload, netJobs, netRoadmap, callbackCount, lastClick, fresh >>

sectionVars == << response, content >>

vars == << file, mutation, resumeId, selectedJob, jobsQ, roadmapQ,
           netUpload, netJobs, netRoadmap, callbackCount, lastClick, fresh,
           response, content >>

\* ------------------------------------------------------------ the cache
\* A query of the cache.  status "absent": not in the cache.  fetch is the
\* fetchStatus with the retryer's position: a request outstanding
\* ("inflight") or the delay before the next retry ("sleeping").
\* failureCount counts the failed requests of the current (or last) fetch,
\* cancelled is the retryer's cancelRetry flag, age the periods since dataUpdatedAt (saturating at the
\* stale time) and gcAge the periods since the garbage collection timer was
\* armed.
Absent ==
  [ status |-> "absent", fetch |-> "idle", failureCount |-> 0,
    cancelled |-> FALSE, data |-> NoData, age |-> 0, gcAge |-> 0 ]

Created == [ Absent EXCEPT !.status = "pending" ]

IsFetching(q) == q.fetch # "idle"

\* isLoading = isFetching && isPending
IsLoading(q) == IsFetching(q) /\ q.status = "pending"

IsError(q) == q.status = "error"

\* isStale: no data yet, or data older than the stale time.
IsStale(q, staleTime) == q.data = NoData \/ q.age >= staleTime


\* --------------------------------------------------------- Query.fetch
\* Query.fetch as the observers call it: a query that is already fetching
\* is not fetched again, its retryer continues (continueRetry); otherwise
\* one request goes out, failureCount restarts at 0 and a query without
\* data goes back to status pending.  sent is the number of requests issued.
\* Mutant: a fetch that does not look for a request already outstanding.
StartFetchNoDedupe(q) ==
  [ q |-> [ q EXCEPT !.fetch = "inflight", !.failureCount = 0,
                     !.cancelled = FALSE,
                     !.status = IF q.data = NoData THEN "pending" ELSE @ ],
    sent |-> 1 ]

StartFetch(q) ==
  IF IsFetching(q)
  THEN [ q |-> [ q EXCEPT !.cancelled = FALSE ], sent |-> 0 ]
  ELSE [ q |-> [ q EXCEPT !.fetch = "inflight", !.failureCount = 0,
                          !.cancelled = FALSE,
                          !.status = IF q.data = NoData THEN "pending" ELSE @ ],
         sent |-> 1 ]

\* An observer subscribes to the query, or moves to it: the query is created
\* when the cache does not hold it, and fetched when it is stale
\* (refetchOnMount and retryOnMount are the defaults, true).
\* Mutant: an observer that leaves a query in error alone (retryOnMount:
\* false, applied to every query in error).
AttachObserverNoRetryOnError(q0, staleTime) ==
  LET q == IF q0.status = "absent" THEN Created ELSE [ q0 EXCEPT !.gcAge = 0 ]
  IN  IF IsStale(q, staleTime) /\ ~IsError(q)
      THEN StartFetch(q) ELSE [ q |-> q, sent |-> 0 ]

\* Mutant: an observer that fetches whatever the age of the data (no
\* staleTime).
AttachObserverAlwaysFetch(q0, staleTime) ==
  StartFetch(IF q0.status = "absent" THEN Created ELSE [ q0 EXCEPT !.gcAge = 0 ])

AttachObserver(q0, staleTime) ==
  LET q == IF q0.status = "absent" THEN Created ELSE [ q0 EXCEPT !.gcAge = 0 ]
  IN  IF IsStale(q, staleTime) THEN StartFetch(q) ELSE [ q |-> q, sent |-> 0 ]

\* The last observer leaves the query: the request outstanding is not
\* aborted (the queryFn never reads the abort signal), only further retries
\* are cancelled (cancelRetry), and the garbage collection timer is armed.
\* Mutant: the fetch is cancelled and reverted when the observer leaves, as
\* for a queryFn that consumes the abort signal.
RemoveObserverAborting(q) ==
  IF q.status = "absent" THEN q
  ELSE [ q EXCEPT !.fetch = "idle", !.failureCount = 0, !.gcAge = 0 ]

\* Mutant: the retryer is not told that the observer left.
RemoveObserverKeepRetrying(q) ==
  IF q.status = "absent" THEN q ELSE [ q EXCEPT !.gcAge = 0 ]

RemoveObserver(q) ==
  IF q.status = "absent" THEN q
  ELSE [ q EXCEPT !.cancelled = IsFetching(q), !.gcAge = 0 ]

\* The request of a fetching query is answered with data.
FetchSucceeded(q, data) ==
  [ q EXCEPT !.status = "success", !.fetch = "idle", !.failureCount = 0,
             !.cancelled = FALSE, !.data = Some(data), !.age = 0, !.gcAge = 0 ]

\* The retryer gives up: status error, the data of an earlier success stays.
FetchRejected(q) ==
  [ q EXCEPT !.status = "error", !.fetch = "idle", !.cancelled = FALSE,
             !.gcAge = 0 ]

\* The request of a fetching query fails: retried after a delay while
\* failureCount < retry and the retries are not cancelled.
FetchFailed(q, retry) ==
  IF q.cancelled \/ q.failureCount >= retry
  THEN FetchRejected([ q EXCEPT !.failureCount = @ + 1 ])
  ELSE [ q EXCEPT !.fetch = "sleeping", !.failureCount = @ + 1 ]

\* Mutant: a retryer whose delay never ends.
RetryNowNever(q) == [ q |-> q, sent |-> 0 ]

\* The retry delay is over: the next request goes out, unless the retries
\* were cancelled in the meantime.
RetryNow(q) ==
  IF q.cancelled
  THEN [ q |-> FetchRejected(q), sent |-> 0 ]
  ELSE [ q |-> [ q EXCEPT !.fetch = "inflight" ], sent |-> 1 ]


\* ------------------------------------------------------- the components
\* JobList's useQuery: queryKey ['jobs', resumeId], enabled: !!resumeId.
\* The key its enabled observer watches.
JobsObserved(rid) == IF Truthy(rid) THEN JobsKey(rid) ELSE NoKey

\* What JobList renders: nothing without a resume id, the spinner while
\* loading, the error text on an error, the list (with the RoadmapDialog)
\* otherwise.
JobListView(rid, jq) ==
  IF ~Truthy(rid) THEN "null"
  ELSE IF IsLoading(jq[JobsKey(rid)]) THEN "loading"
  ELSE IF IsError(jq[JobsKey(rid)]) THEN "error"
  ELSE "list"

\* The jobs of the list JobList renders (jobs?.map).
JobsShown(rid, jq) ==
  IF JobListView(rid, jq) = "list" /\ jq[JobsKey(rid)].data # NoData
  THEN Range(jq[JobsKey(rid)].data[1]) ELSE {}

\* RoadmapDialog is rendered by the list view alone.
DialogMounted(rid, jq) == JobListView(rid, jq) = "list"

\* open={!!selectedJob}
DialogOpen(rid, sel, jq) == DialogMounted(rid, jq) /\ Truthy(sel)

\* RoadmapDialog's useQuery: queryKey ['roadmap', resumeId, jobTitle] with
\* jobTitle = selectedJob || '', enabled: open && !!resumeId && !!jobTitle.
\* The key its enabled observer watches.
\* Mutant: enabled: !!resumeId
RoadmapEnabledResumeOnly(open, rid, jobTitle) == Truthy(rid)

RoadmapEnabled(open, rid, jobTitle) == open /\ Truthy(rid) /\ Truthy(jobTitle)

RoadmapObserved(rid, sel, jq) ==
  LET jobTitle == IF Truthy(sel) THEN sel ELSE ""
  IN  IF DialogMounted(rid, jq) /\ RoadmapEnabled(Truthy(sel), rid, jobTitle)
      THEN RoadmapKey(rid, jobTitle) ELSE NoKey

\* What the dialog shows: the three conditional blocks of its content.
RoadmapView(rid, sel, jq, rq) ==
  IF ~DialogOpen(rid, sel, jq) THEN "closed"
  ELSE LET q == rq[RoadmapKey(rid, sel)]
       IN  IF IsLoading(q) THEN "loading"
           ELSE IF IsError(q) THEN "error"
           ELSE IF q.data # NoData THEN "roadmap"
           ELSE "empty"

\* ------------------------------------------------------------ rendering
\* The render that follows every state change: the observers of the two
\* useQuery hooks move to the keys the new state gives them.  old and new
\* are the keys watched before and after; the result is the cache with the
\* number of requests the move issued.
MoveObserver(cache, old, new, staleTime) ==
  IF old = new THEN [ cache |-> cache, key |-> NoKey, sent |-> 0 ]
  ELSE LET left == IF old = NoKey THEN cache
                   ELSE [ cache EXCEPT ![old] = RemoveObserver(@) ]
       IN  IF new = NoKey THEN [ cache |-> left, key |-> NoKey, sent |-> 0 ]
           ELSE LET r == AttachObserver(left[new], staleTime)
                IN  [ cache |-> [ left EXCEPT ![new] = r.q ],
                      key |-> new, sent |-> r.sent ]

Sent(net, r) ==
  IF r.sent = 0 THEN net ELSE [ net EXCEPT ![r.key] = @ + r.sent ]

\* The new state of App and JobList with the caches jq, rq and the requests
\* nj, nr as the handler left them: re-render, first JobList, then the
\* RoadmapDialog it renders or not.
Render(rid, sel, jq, rq, nj, nr) ==
  LET j == MoveObserver(jq, JobsObserved(resumeId), JobsObserved(rid),
                        JobsStaleTime)
      r == MoveObserver(rq, RoadmapObserved(resumeId, selectedJob, jobsQ),
                        RoadmapObserved(rid, sel, j.cache), RoadmapStaleTime)
  IN  /\ resumeId' = rid
      /\ selectedJob' = sel
      /\ jobsQ' = j.cache
      /\ roadmapQ' = r.cache
      /\ netJobs' = Sent(nj, j)
      /\ netRoadmap' = Sent(nr, r)


\* ------------------------------------------------------ the roadmap block
\* The values of a response body, tagged with their JavaScript type.
Undefined == [ t |-> "undefined" ]
JNull == [ t |-> "null" ]
JStr(s) == [ t |-> "string", s |-> s ]
JNum(n) == [ t |-> "number", n |-> n ]
JArr(a) == [ t |-> "array", a |-> a ]
JObj(o) == [ t |-> "object", o |-> o ]

\* !!v
TruthyValue(v) ==
  CASE v.t \in {"undefined", "null"} -> FALSE
    [] v.t = "string" -> v.s # ""
    [] v.t = "number" -> v.n # 0
    [] OTHER -> TRUE

\* Array.isArray(v)
IsArray(v) == v.t = "array"

\* v?.name: the property of an object, undefined for anything else.
Get(v, name) ==
  IF v.t = "object" /\ name \in DOMAIN v.o THEN v.o[name] ELSE Undefined

\* A value as a child of an element: React renders strings and numbers as
\* text, the items of an array one by one, nothing for null and undefined,
\* and throws on a plain object ("Objects are not valid as a React child").
RECURSIVE ChildThrows(_)
ChildThrows(v) ==
  \/ v.t = "object"
  \/ v.t = "array" /\ \E i \in 1..Len(v.a) : ChildThrows(v.a[i])

RECURSIVE ChildText(_)
ChildText(v) ==
  CASE v.t = "string" -> v.s
    [] v.t = "number" -> ToString(v.n)
    [] v.t = "array" ->
         IF v.a = << >> THEN "" ELSE ChildText(Head(v.a)) \o ChildText(JArr(Tail(v.a)))
    [] OTHER -> ""

\* {v || fallback}
Child(v, fallback) ==
  IF TruthyValue(v)
  THEN [ throws |-> ChildThrows(v), text |-> IF ChildThrows(v) THEN "" ELSE ChildText(v) ]
  ELSE [ throws |-> FALSE, text |-> fallback ]

\* a.map(item => <Typography>{item || fallback}</Typography>)
Items(a, fallback) ==
  LET c == [ i \in 1..Len(a) |-> Child(a[i], fallback) ]
  IN  [ kind |-> "items", text |-> "",
        throws |-> \E i \in 1..Len(a) : c[i].throws,
        items |-> [ i \in 1..Len(a) |-> << c[i].text >> ] ]

\* The Typography of an empty state.
Placeholder(text) ==
  [ kind |-> "placeholder", text |-> text, throws |-> FALSE, items |-> << >> ]

\* field && Array.isArray(field) && field.length > 0
NonEmptyArray(v) == TruthyValue(v) /\ IsArray(v) /\ Len(v.a) > 0

\* The four sections of the roadmap block.
SkillsGapSection(roadmap) ==
  LET f == Get(roadmap, "skills_gap")
  IN  IF NonEmptyArray(f) THEN Items(f.a, "Unknown skill")
      ELSE Placeholder("No skills gap data available")

\* The tasks of one phase: step?.tasks && Array.isArray(step.tasks)
TaskList(step) ==
  LET t == Get(step, "tasks")
  IN  IF TruthyValue(t) /\ IsArray(t) THEN Items(t.a, "Task not specified")
      ELSE Placeholder("No tasks defined for this phase")

\* One Step of the Stepper: title, duration and the tasks.
Phase(step, index) ==
  LET title == Child(Get(step, "title"), "Phase " \o ToString(index))
      duration == Child(Get(step, "duration"), "Duration not specified")
      tasks == TaskList(step)
  IN  [ throws |-> title.throws \/ duration.throws \/ tasks.throws,
        lines |-> << title.text, duration.text, tasks.text >>
                    \o [ i \in 1..Len(tasks.items) |-> tasks.items[i][1] ] ]

LearningPathSection(roadmap) ==
  LET f == Get(roadmap, "learning_path")
  IN  IF NonEmptyArray(f)
      THEN [ kind |-> "items", text |-> "",
             throws |-> \E i \in 1..Len(f.a) : Phase(f.a[i], i).throws,
             items |-> [ i \in 1..Len(f.a) |-> Phase(f.a[i], i).lines ] ]
      ELSE Placeholder("No learning path data available")

CertificationsSection(roadmap) ==
  LET f == Get(roadmap, "certifications")
  IN  IF NonEmptyArray(f) THEN Items(f.a, "Certification not specified")
      ELSE Placeholder("No certification recommendations available")

\* One project: title and description.
Project(project, index) ==
  LET title == Child(Get(project, "title"), "Project " \o ToString(index))
      description == Child(Get(project, "description"),
                           "Project description not available")
  IN  [ throws |-> title.throws \/ description.throws,
        lines |-> << title.text, description.text >> ]

ProjectsSection(roadmap) ==
  LET f == Get(roadmap, "projects")
  IN  IF NonEmptyArray(f)
      THEN [ kind |-> "items", text |-> "",
             throws |-> \E i \in 1..Len(f.a) : Project(f.a[i], i).throws,
             items |-> [ i \in 1..Len(f.a) |-> Project(f.a[i], i).lines ] ]
      ELSE Placeholder("No project suggestions available")

SectionNames == { "skills_gap", "learning_path", "certifications", "projects" }

\* Nothing rendered: before the block renders, and after a throw (no error
\* boundary anywhere: React unmounts the tree).
NoSections == [ f \in SectionNames |-> [ kind |-> "none", text |-> "", items |-> << >> ] ]
NotRendered == [ state |-> "none", sections |-> NoSections ]
Thrown == [ state |-> "thrown", sections |-> NoSections ]

\* The block {!isLoading && !isError && roadmap && (...)} for a response
\* body: the four sections, or the exception of the first child that
\* throws.
RoadmapContent(roadmap) ==
  LET s == [ skills_gap |-> SkillsGapSection(roadmap),
             learning_path |-> LearningPathSection(roadmap),
             certifications |-> CertificationsSection(roadmap),
             projects |-> ProjectsSection(roadmap) ]
  IN  IF \E f \in SectionNames : s[f].throws THEN Thrown
      ELSE [ state |-> "rendered",
             sections |-> [ f \in SectionNames |->
                              [ kind |-> s[f].kind, text |-> s[f].text,
                                items |-> s[f].items ] ] ]

\* ------------------------------------------------- the response bodies
SeqsUpTo(S, n) == UNION { [ 1..k -> S ] : k \in 0..n }

\* What a field that should hold a list may hold: nothing, null, a string,
\* or a list of up to MaxItems items.
ListShapes(items) ==
  { Undefined, JNull, JStr("none") } \cup { JArr(a) : a \in SeqsUpTo(items, MaxItems) }

\* The items of skills_gap and certifications: strings by the interface,
\* anything by the wire.
StringItems ==
  { JStr("Required: SQL"), JStr(""), JNull, JNum(7), JObj([ name |-> JStr("SQL") ]) }

TaskShapes ==
  { Undefined, JStr("read"), JArr(<< >>), JArr(<< JStr("Learn SQL") >>),
    JArr(<< JObj([ name |-> JStr("Learn SQL") ]) >>) }

PhaseItems ==
  { JNull, JStr("Basics") } \cup
  { JObj([ title |-> t, duration |-> d, tasks |-> k ]) :
      t \in { JStr("Basics"), Undefined, JObj([ text |-> JStr("Basics") ]) },
      d \in { JStr("2 weeks"), Undefined },
      k \in TaskShapes }

ProjectItems ==
  { JNull } \cup
  { JObj([ title |-> t, description |-> d ]) :
      t \in { JStr("Dashboard"), Undefined, JObj([ text |-> JStr("Dashboard") ]) },
      d \in { JStr("Build it"), Undefined, JObj([ text |-> JStr("Build it") ]) } }

\* response.data of a 2xx answer of POST /career/roadmap: an object with
\* the four fields in any shape, a string, or null.
IsResponse(body) ==
  \/ body \in { JNull, JStr("ok") }
  \/ \E s \in ListShapes(StringItems), l \in ListShapes(PhaseItems),
        c \in ListShapes(StringItems), p \in ListShapes(ProjectItems) :
       body = JObj([ skills_gap |-> s, learning_path |-> l,
                     certifications |-> c, projects |-> p ])

\* -------------------------------------------------------------- actions
\* The page after it loaded.
PageInit ==
  /\ file = NoFile
  /\ mutation = [ status |-> "idle", data |-> Null, failureCount |-> 0 ]
  /\ resumeId = Null
  /\ selectedJob = Null
  /\ jobsQ = [ k \in JobsKeys |-> Absent ]
  /\ roadmapQ = [ k \in RoadmapKeys |-> Absent ]
  /\ netUpload = 0
  /\ netJobs = [ k \in JobsKeys |-> 0 ]
  /\ netRoadmap = [ k \in RoadmapKeys |-> 0 ]
  /\ callbackCount = 0
  /\ lastClick = [ action |-> "none", found |-> "none" ]
  /\ fresh = {}

Init ==
  /\ PageInit
  /\ response = Undefined
  /\ content = NotRendered

\* <input type="file" onChange>: setFile(e.target.files?.[0] || null)
SelectFile(f) ==
  /\ UNCHANGED sectionVars
  /\ f # file
  /\ file' = f
  /\ UNCHANGED << mutation, resumeId, selectedJob, jobsQ, roadmapQ,
                  netUpload, netJobs, netRoadmap, callbackCount, lastClick, fresh >>

\* Mutant: disabled={uploadMutation.isPending}
SubmitDisabledPendingOnly == mutation.status = "pending"

\* Mutant: disabled={!file}
SubmitDisabledNoFileOnly == file = NoFile

\* disabled={!file || uploadMutation.isPending}
SubmitDisabled == file = NoFile \/ mutation.status = "pending"

\* handleUpload: if (!file) return; uploadMutation.mutate(formData)
handleUpload ==
  /\ UNCHANGED sectionVars
  /\ ~SubmitDisabled
  /\ file # NoFile
  /\ callbackCount < MaxUploads
  /\ mutation' = [ status |-> "pending", data |-> Null, failureCount |-> 0 ]
  /\ netUpload' = netUpload + 1
  /\ UNCHANGED << file, resumeId, selectedJob, jobsQ, roadmapQ, netJobs,
                  netRoadmap, callbackCount, lastClick, fresh >>

\* queryClient.invalidateQueries({ queryKey: ['resume'] }): no query of the
\* cache has a key that starts with 'resume', so none is invalidated.
InvalidateResume(cache) == cache

\* Mutant: a callback that keeps the first resume id.
onUploadSuccessKeepsFirst(id) ==
  /\ callbackCount' = callbackCount + 1
  /\ Render(IF resumeId = Null THEN id ELSE resumeId, selectedJob,
            InvalidateResume(jobsQ), InvalidateResume(roadmapQ), netJobs,
            netRoadmap)

\* onUploadSuccess={(id) => setResumeId(id)}
onUploadSuccess(id) ==
  /\ callbackCount' = callbackCount + 1
  /\ Render(id, selectedJob, InvalidateResume(jobsQ),
            InvalidateResume(roadmapQ), netJobs, netRoadmap)

\* Mutant: onSuccess without the call of onUploadSuccess.
onSuccessNoCallback(data) ==
  /\ mutation' = [ status |-> "success", data |-> data, failureCount |-> 0 ]
  /\ callbackCount' = callbackCount
  /\ Render(resumeId, selectedJob, InvalidateResume(jobsQ),
            InvalidateResume(roadmapQ), netJobs, netRoadmap)

\* uploadMutation.onSuccess: invalidate, then onUploadSuccess(data.id)
onSuccess(data) ==
  /\ mutation' = [ status |-> "success", data |-> data, failureCount |-> 0 ]
  /\ onUploadSuccess(data)

\* The upload request is answered: 2xx with an id.
UploadSucceeds(id) ==
  /\ UNCHANGED sectionVars
  /\ netUpload > 0
  /\ netUpload' = netUpload - 1
  /\ onSuccess(id)
  /\ UNCHANGED << file, lastClick, fresh >>

\* Mutant: a mutation that sends the request again after a failure.
onUploadErrorRetried ==
  /\ mutation' = [ mutation EXCEPT !.failureCount = @ + 1 ]
  /\ netUpload' = netUpload

\* The upload mutation after a failed request: useMutation sets no retry
\* and new QueryClient() no default, so the mutation fails at once.
onUploadError ==
  /\ mutation' = [ status |-> "error", data |-> Null,
                   failureCount |-> mutation.failureCount + 1 ]
  /\ netUpload' = netUpload - 1

\* The upload request fails (network error or non-2xx status).
UploadFails ==
  /\ UNCHANGED sectionVars
  /\ netUpload > 0
  /\ onUploadError
  /\ UNCHANGED << file, resumeId, selectedJob, jobsQ, roadmapQ, netJobs,
                  netRoadmap, callbackCount, lastClick, fresh >>


\* What a click on the card of title t finds in the cache for its roadmap.
Found(rid, t, rq) ==
  IF ~Truthy(t) THEN "disabled"
  ELSE LET q == rq[RoadmapKey(rid, t)]
       IN  IF IsFetching(q) THEN "fetching"
           ELSE IF IsError(q) THEN "error"
           ELSE IF IsStale(q, RoadmapStaleTime) THEN "stale"
           ELSE "fresh"

\* "View Career Roadmap" of a card: setSelectedJob(job.title).  The cards
\* are behind the modal dialog while it is open.
SelectJob(t) ==
  /\ UNCHANGED sectionVars
  /\ t \in JobsShown(resumeId, jobsQ)
  /\ ~DialogOpen(resumeId, selectedJob, jobsQ)
  /\ t # selectedJob
  /\ Render(resumeId, t, jobsQ, roadmapQ, netJobs, netRoadmap)
  /\ lastClick' = [ action |-> "SelectJob", found |-> Found(resumeId, t, roadmapQ) ]
  /\ UNCHANGED fresh
  /\ UNCHANGED << file, mutation, netUpload, callbackCount >>

\* Mutant: a close handler that also removes the roadmap it closes from the
\* cache (removeQueries).
onCloseRemovesQuery ==
  /\ UNCHANGED sectionVars
  /\ DialogOpen(resumeId, selectedJob, jobsQ)
  /\ Render(resumeId, Null, jobsQ,
            [ roadmapQ EXCEPT ![RoadmapKey(resumeId, selectedJob)] = Absent ],
            netJobs, netRoadmap)
  /\ lastClick' = [ action |-> "onClose",
                    found |-> Found(resumeId, selectedJob, roadmapQ) ]
  /\ UNCHANGED fresh
  /\ UNCHANGED << file, mutation, netUpload, callbackCount >>

\* onClose={() => setSelectedJob(null)}: the Close buttons, Escape, a click
\* on the backdrop.
onClose ==
  /\ UNCHANGED sectionVars
  /\ DialogOpen(resumeId, selectedJob, jobsQ)
  /\ Render(resumeId, Null, jobsQ, roadmapQ, netJobs, netRoadmap)
  /\ lastClick' = [ action |-> "onClose",
                    found |-> Found(resumeId, selectedJob, roadmapQ) ]
  /\ UNCHANGED fresh
  /\ UNCHANGED << file, mutation, netUpload, callbackCount >>

\* A response reaches the query that waits for it; a query that is not
\* waiting (none is, after a reload) ignores it.
Answered(cache, k, q) ==
  IF cache[k].fetch = "inflight" THEN [ cache EXCEPT ![k] = q ] ELSE cache

\* GET /jobs/match/{resumeId} answers with a list.
JobsSucceeds(k, list) ==
  /\ UNCHANGED sectionVars
  /\ netJobs[k] > 0
  /\ Render(resumeId, selectedJob,
            Answered(jobsQ, k, FetchSucceeded(jobsQ[k], list)), roadmapQ,
            [ netJobs EXCEPT ![k] = @ - 1 ], netRoadmap)
  /\ UNCHANGED << file, mutation, netUpload, callbackCount, lastClick, fresh >>

\* Mutant: the jobs query with the retry option of the roadmap query.
JobsRetryAsRoadmap == RoadmapRetry

\* The retry option of the jobs query: none given, the default applies.
JobsRetry == DefaultQueryRetry

\* GET /jobs/match/{resumeId} fails.
JobsFails(k) ==
  /\ UNCHANGED sectionVars
  /\ netJobs[k] > 0
  /\ Render(resumeId, selectedJob,
            Answered(jobsQ, k, FetchFailed(jobsQ[k], JobsRetry)), roadmapQ,
            [ netJobs EXCEPT ![k] = @ - 1 ], netRoadmap)
  /\ UNCHANGED << file, mutation, netUpload, callbackCount, lastClick, fresh >>

\* The retry delay of the jobs query is over.
JobsRetries(k) ==
  /\ UNCHANGED sectionVars
  /\ jobsQ[k].fetch = "sleeping"
  /\ LET r == RetryNow(jobsQ[k])
     IN  Render(resumeId, selectedJob, [ jobsQ EXCEPT ![k] = r.q ], roadmapQ,
                [ netJobs EXCEPT ![k] = @ + r.sent ], netRoadmap)
  /\ UNCHANGED << file, mutation, netUpload, callbackCount, lastClick, fresh >>

\* POST /career/roadmap answers with a plan.
RoadmapSucceeds(k) ==
  /\ UNCHANGED sectionVars
  /\ netRoadmap[k] > 0
  /\ Render(resumeId, selectedJob, jobsQ,
            Answered(roadmapQ, k, FetchSucceeded(roadmapQ[k], RoadmapPlan)),
            netJobs, [ netRoadmap EXCEPT ![k] = @ - 1 ])
  /\ fresh' = IF roadmapQ[k].fetch = "inflight" THEN fresh \cup {k} ELSE fresh
  /\ UNCHANGED << file, mutation, netUpload, callbackCount, lastClick >>

\* POST /career/roadmap fails: the queryFn rethrows, retry: 2 applies.
RoadmapFails(k) ==
  /\ UNCHANGED sectionVars
  /\ netRoadmap[k] > 0
  /\ Render(resumeId, selectedJob, jobsQ,
            Answered(roadmapQ, k, FetchFailed(roadmapQ[k], RoadmapRetry)),
            netJobs, [ netRoadmap EXCEPT ![k] = @ - 1 ])
  /\ UNCHANGED << file, mutation, netUpload, callbackCount, lastClick, fresh >>

\* The retry delay of the roadmap query is over.
RoadmapRetries(k) ==
  /\ UNCHANGED sectionVars
  /\ roadmapQ[k].fetch = "sleeping"
  /\ LET r == RetryNow(roadmapQ[k])
     IN  Render(resumeId, selectedJob, jobsQ, [ roadmapQ EXCEPT ![k] = r.q ],
                netJobs, [ netRoadmap EXCEPT ![k] = @ + r.sent ])
  /\ UNCHANGED << file, mutation, netUpload, callbackCount, lastClick, fresh >>


\* A period passes for one query: its data ages, and a query that no
\* observer watches and that is not fetching is removed from the cache when
\* its garbage collection timer fires.
Aged(q, observed, staleTime) ==
  IF q.status = "absent" THEN q
  ELSE IF ~observed /\ ~IsFetching(q)
  THEN IF q.gcAge + 1 >= DefaultGcTime THEN Absent
       ELSE [ q EXCEPT !.gcAge = @ + 1,
                       !.age = IF q.data = NoData THEN 0 ELSE Min(@ + 1, staleTime) ]
  ELSE [ q EXCEPT !.age = IF q.data = NoData THEN 0 ELSE Min(@ + 1, staleTime) ]

Tick ==
  /\ UNCHANGED sectionVars
  /\ jobsQ' = [ k \in JobsKeys |->
                  Aged(jobsQ[k], k = JobsObserved(resumeId), JobsStaleTime) ]
  /\ roadmapQ' = [ k \in RoadmapKeys |->
                  Aged(roadmapQ[k],
                       k = RoadmapObserved(resumeId, selectedJob, jobsQ),
                       RoadmapStaleTime) ]
  /\ fresh' = {}
  /\ UNCHANGED << file, mutation, resumeId, selectedJob, netUpload, netJobs,
                  netRoadmap, callbackCount, lastClick >>

\* The "Retry" button of the error view: window.location.reload().  The page
\* starts again; the browser drops the requests of the old page.
Reload ==
  /\ UNCHANGED sectionVars
  /\ RoadmapView(resumeId, selectedJob, jobsQ, roadmapQ) = "error"
  /\ file' = NoFile
  /\ mutation' = [ status |-> "idle", data |-> Null, failureCount |-> 0 ]
  /\ resumeId' = Null
  /\ selectedJob' = Null
  /\ jobsQ' = [ k \in JobsKeys |-> Absent ]
  /\ roadmapQ' = [ k \in RoadmapKeys |-> Absent ]
  /\ netUpload' = 0
  /\ netJobs' = [ k \in JobsKeys |-> 0 ]
  /\ netRoadmap' = [ k \in RoadmapKeys |-> 0 ]
  /\ callbackCount' = 0
  /\ lastClick' = [ action |-> "none", found |-> "none" ]
  /\ fresh' = {}

Next ==
  \/ \E f \in Files \cup {NoFile} : SelectFile(f)
  \/ handleUpload
  \/ \E id \in UploadAnswers : UploadSucceeds(id)
  \/ UploadFails
  \/ \E t \in JobTitles \cup {""} : SelectJob(t)
  \/ onClose
  \/ \E k \in JobsKeys, list \in JobLists : JobsSucceeds(k, list)
  \/ \E k \in JobsKeys : JobsFails(k)
  \/ \E k \in JobsKeys : JobsRetries(k)
  \/ \E k \in RoadmapKeys : RoadmapSucceeds(k)
  \/ \E k \in RoadmapKeys : RoadmapFails(k)
  \/ \E k \in RoadmapKeys : RoadmapRetries(k)
  \/ Tick
  \/ Reload

Spec == Init /\ [][Next]_vars

\* The backend answers every match-list request, with a list or a failure,
\* and the timer of a retry delay fires.
Fairness ==
  \A k \in JobsKeys :
    /\ WF_vars((\E list \in JobLists : JobsSucceeds(k, list)) \/ JobsFails(k))
    /\ WF_vars(JobsRetries(k))

FairSpec == Spec /\ Fairness

\* ---------------------------------------------- rendering one response
\* The roadmap block alone: a response body of any shape is in the cache
\* and the dialog renders it.
SectionsInit ==
  /\ PageInit
  /\ IsResponse(response)
  /\ content = NotRendered

\* {!isLoading && !isError && roadmap && (...)}
RoadmapBlock ==
  /\ content.state = "none"
  /\ TruthyValue(response)
  /\ content' = RoadmapContent(response)
  /\ UNCHANGED response
  /\ UNCHANGED pageVars

SectionsNext == RoadmapBlock

SectionsSpec == SectionsInit /\ [][SectionsNext]_vars

\* ------------------------------------------------------------- the views
\* What the page shows in the current state.
CurJobListView == JobListView(resumeId, jobsQ)
CurRoadmapView == RoadmapView(resumeId, selectedJob, jobsQ, roadmapQ)
CurJobsObserved == JobsObserved(resumeId)
CurRoadmapObserved == RoadmapObserved(resumeId, selectedJob, jobsQ)
CurDialogOpen == DialogOpen(resumeId, selectedJob, jobsQ)

\* -------------------------------------------------------------- the steps
\* The step closes the dialog (onClose; the reload also clears the
\* selection, and with it the count of the uploads).
ClosesDialog ==
  /\ Truthy(selectedJob)
  /\ selectedJob' = Null
  /\ callbackCount' = callbackCount

\* The step delivers the response of a roadmap request for k that no
\* enabled observer waits for (the dialog was closed, or shows another key).
LateRoadmapResponse(k) ==
  /\ netRoadmap[k] > 0
  /\ netRoadmap'[k] = netRoadmap[k] - 1
  /\ callbackCount' = callbackCount
  /\ CurRoadmapObserved # k

\* ---------------------------------------------------------------- claims

\* C1: once a roadmap request for (resumeId, jobTitle) has succeeded, every
\* step that opens the dialog on that pair within the same five minutes
\* issues no roadmap request for it and shows the cached roadmap.
C1_CacheHit ==
  [][ \A k \in RoadmapKeys :
        (k \in fresh /\ CurRoadmapObserved # k /\ CurRoadmapObserved' = k)
        => /\ netRoadmap'[k] = netRoadmap[k]
           /\ CurRoadmapView' = "roadmap" ]_vars

\* The dialog was closed and a card clicked again while the cached roadmap
\* was fresh: it is shown, and no request is outstanding.
C1_Witness ==
  /\ lastClick = [ action |-> "SelectJob", found |-> "fresh" ]
  /\ CurRoadmapObserved \in fresh
  /\ netRoadmap[CurRoadmapObserved] = 0
  /\ CurRoadmapView = "roadmap"

\* C2: at most one request is outstanding per query key, roadmap and match
\* list alike, and it is the request of the query's one running fetch.
C2_OneRequestPerKey ==
  /\ \A k \in RoadmapKeys :
       /\ netRoadmap[k] <= 1
       /\ netRoadmap[k] = 1 <=> roadmapQ[k].fetch = "inflight"
  /\ \A k \in JobsKeys :
       /\ netJobs[k] <= 1
       /\ netJobs[k] = 1 <=> jobsQ[k].fetch = "inflight"

\* A card was clicked while the fetch of its roadmap was still running (the
\* same roadmap opened a second time): one request is outstanding.
C2_Witness ==
  /\ lastClick = [ action |-> "SelectJob", found |-> "fetching" ]
  /\ CurRoadmapObserved # NoKey
  /\ netRoadmap[CurRoadmapObserved] = 1

C4_CallbackOncePerSuccess ==
  [][ IF mutation.status = "pending" /\ mutation'.status = "success"
      THEN /\ callbackCount' = callbackCount + 1
           /\ resumeId' = mutation'.data
      ELSE \/ callbackCount' = callbackCount
           \/ mutation'.status = "idle" /\ callbackCount' = 0 ]_vars

\* An upload has succeeded with an id: one call, the id is the resume id.
C4_Witness ==
  /\ mutation.status = "success"
  /\ mutation.data \in ResumeIds
  /\ callbackCount = 1
  /\ resumeId = mutation.data

\* C5: without a file the submit button is disabled, and every step that
\* issues an upload request starts with a file selected and keeps it.
C5_NoUploadWithoutFile ==
  /\ [](file = NoFile => SubmitDisabled)
  /\ [][ netUpload' > netUpload => file # NoFile /\ file' = file ]_vars

\* An upload request is outstanding for the selected file.
C5_Witness ==
  /\ netUpload = 1
  /\ mutation.status = "pending"
  /\ file \in Files

\* C6: the submit button is disabled while the upload is pending, and at
\* most one upload request is outstanding: exactly the pending one.
C6_OneUploadInFlight ==
  /\ netUpload <= 1
  /\ netUpload = 1 <=> mutation.status = "pending"
  /\ mutation.status = "pending" => SubmitDisabled

\* A second upload is outstanding, after the first has succeeded.
C6_Witness ==
  /\ netUpload = 1
  /\ mutation.status = "pending"
  /\ callbackCount = 1

\* C7: every step that issues a roadmap request, a first one or a retry,
\* ends with the dialog open on the pair the request is for, resume id and
\* job title both non-empty.
C7_RoadmapRequestOnlyWhenOpen ==
  [][ \A k \in RoadmapKeys :
        netRoadmap'[k] > netRoadmap[k]
        => /\ CurDialogOpen'
           /\ Truthy(resumeId') /\ Truthy(selectedJob')
           /\ k = RoadmapKey(resumeId', selectedJob') ]_vars

\* A retry of the roadmap request is outstanding, the dialog open on it.
C7_Witness ==
  /\ CurRoadmapObserved # NoKey
  /\ netRoadmap[CurRoadmapObserved] = 1
  /\ roadmapQ[CurRoadmapObserved].failureCount >= 1
  /\ CurDialogOpen

\* C8: every step that issues a match-list request, a first one or a retry,
\* comes after a successful upload and ends with a non-null, non-empty
\* resume id, the one the request is for.
C8_JobsRequestOnlyWithResume ==
  [][ \A k \in JobsKeys :
        netJobs'[k] > netJobs[k]
        => /\ resumeId' # Null /\ Truthy(resumeId')
           /\ k = JobsKey(resumeId')
           /\ callbackCount' >= 1 ]_vars

\* The match list of the second upload's resume is being requested while a
\* request for the first resume is still on its way.
C8_Witness ==
  /\ callbackCount = 2
  /\ Truthy(resumeId)
  /\ netJobs[JobsKey(resumeId)] = 1
  /\ \E k \in JobsKeys : k # JobsKey(resumeId) /\ IsFetching(jobsQ[k])

\* C9: an upload request is issued by a click on submit alone, one per
\* click; the step in which the upload fails leaves the mutation in error
\* with no request outstanding, calls no callback, keeps the resume id and
\* enables the submit button again when a file is selected.
C9_UploadNotRetried ==
  [][ /\ netUpload' > netUpload
         => /\ netUpload' = netUpload + 1
            /\ mutation.status # "pending" /\ mutation'.status = "pending"
      /\ mutation'.failureCount > mutation.failureCount
         => /\ mutation'.status = "error"
            /\ netUpload' = 0
            /\ callbackCount' = callbackCount
            /\ resumeId' = resumeId
            /\ file' # NoFile => ~SubmitDisabled' ]_vars

\* The upload has failed: the error message, the file still selected, the
\* button enabled, nothing outstanding.
C9_Witness ==
  /\ mutation.status = "error"
  /\ mutation.failureCount = 1
  /\ file \in Files
  /\ ~SubmitDisabled
  /\ netUpload = 0

\* C10 as stated: a failed match-list request is not retried: after its
\* first failure the query is in error, with nothing left to run.
C10_JobsNotRetried ==
  \A k \in JobsKeys :
    jobsQ[k].failureCount >= 1 => IsError(jobsQ[k]) /\ ~IsFetching(jobsQ[k])

\* C10 as amended: a failed match-list request is retried up to three times
\* (the default of the query client; four requests at most); on a list
\* never fetched with success the spinner is shown while the retries run,
\* and a fetch of the current resume's list that ends in error ends after
\* exactly four failed requests, with the error text shown.
C10_JobsRetriedThreeTimes ==
  /\ \A k \in JobsKeys :
       /\ jobsQ[k].failureCount <= 4
       /\ IsFetching(jobsQ[k]) => jobsQ[k].failureCount <= 3
  /\ CurJobsObserved # NoKey =>
       LET q == jobsQ[CurJobsObserved]
       IN  /\ (IsFetching(q) /\ q.data = NoData) => CurJobListView = "loading"
           /\ (IsError(q) /\ ~IsFetching(q)) =>
                CurJobListView = "error" /\ q.failureCount = 4

\* The error text after the fourth failed request.
C10_Witness ==
  /\ CurJobsObserved # NoKey
  /\ CurJobListView = "error"
  /\ jobsQ[CurJobsObserved].failureCount = 4

C12_LateResponseDiscarded ==
  [][ /\ ClosesDialog => netRoadmap' = netRoadmap
      /\ \A k \in RoadmapKeys :
           LateRoadmapResponse(k)
           => /\ CurRoadmapView' = CurRoadmapView
              /\ CurJobListView' = CurJobListView
              /\ roadmapQ'[k].status = roadmapQ[k].status
              /\ roadmapQ'[k].data = roadmapQ[k].data ]_vars

\* C12 as amended: closing the dialog while its request is in flight leaves
\* the request outstanding and the fetch running; the response that arrives
\* afterwards changes nothing of what the page shows, but it is not
\* discarded: it ends the fetch, a success is stored in the cache entry as
\* fresh data, a failure puts the entry in error without a retry.
C12_LateResponseCached ==
  [][ /\ ClosesDialog
         => /\ netRoadmap' = netRoadmap
            /\ \A k \in RoadmapKeys : roadmapQ'[k].fetch = roadmapQ[k].fetch
      /\ \A k \in RoadmapKeys :
           LateRoadmapResponse(k)
           => /\ CurRoadmapView' = CurRoadmapView
              /\ CurJobListView' = CurJobListView
              /\ roadmapQ'[k].fetch = "idle"
              /\ \/ /\ roadmapQ'[k].status = "success"
                    /\ roadmapQ'[k].data = Some(RoadmapPlan)
                    /\ roadmapQ'[k].age = 0
                 \/ /\ roadmapQ'[k].status = "error"
                    /\ roadmapQ'[k].data = roadmapQ[k].data
                    /\ roadmapQ'[k].failureCount = roadmapQ[k].failureCount + 1
      ]_vars

\* The dialog was closed while the one roadmap request of the session was
\* in flight, and its response has arrived since: the dialog is closed, the
\* request answered, the plan in the cache.
C12_Witness ==
  /\ lastClick = [ action |-> "onClose", found |-> "fetching" ]
  /\ callbackCount = 1
  /\ Truthy(resumeId)
  /\ ~CurDialogOpen
  /\ \E t \in JobTitles :
       /\ netRoadmap[RoadmapKey(resumeId, t)] = 0
       /\ roadmapQ[RoadmapKey(resumeId, t)].status = "success"
       /\ roadmapQ[RoadmapKey(resumeId, t)].data = Some(RoadmapPlan)

\* C13: the step that closes the dialog sets the selection to none, which
\* closes the dialog and disables the roadmap query, and changes nothing
\* else: not the resume id, not the match lists, not the upload, no request
\* outstanding, and of no roadmap cache entry the status, the data, its age,
\* the state of its fetch or its failure count.
C13_CloseResetsSelectionOnly ==
  [][ ClosesDialog
      => /\ selectedJob' = Null
         /\ ~CurDialogOpen'
         /\ CurRoadmapObserved' = NoKey
         /\ resumeId' = resumeId
         /\ jobsQ' = jobsQ
         /\ file' = file /\ mutation' = mutation
         /\ netUpload' = netUpload /\ netJobs' = netJobs
         /\ netRoadmap' = netRoadmap
         /\ \A k \in RoadmapKeys :
              /\ roadmapQ'[k].status = roadmapQ[k].status
              /\ roadmapQ'[k].data = roadmapQ[k].data
              /\ roadmapQ'[k].age = roadmapQ[k].age
              /\ roadmapQ'[k].fetch = roadmapQ[k].fetch
              /\ roadmapQ'[k].failureCount = roadmapQ[k].failureCount ]_vars

\* The dialog was closed while it showed a fresh roadmap: no selection, the
\* match list still shown, the roadmap still in the cache.
C13_Witness ==
  /\ lastClick = [ action |-> "onClose", found |-> "fresh" ]
  /\ selectedJob = Null
  /\ callbackCount = 1
  /\ Truthy(resumeId)
  /\ CurJobListView = "list"
  /\ \E t \in JobTitles :
       /\ t \in JobsShown(resumeId, jobsQ)
       /\ roadmapQ[RoadmapKey(resumeId, t)].status = "success"
       /\ roadmapQ[RoadmapKey(resumeId, t)].data = Some(RoadmapPlan)

\* C14: for every response body the roadmap block renders, and each of its
\* four sections on its own: a field that is missing, null or not a list
\* renders the placeholder of its section, a list with items renders its
\* items, and no body makes the block throw.
C14_SectionsNeverThrow ==
  content.state # "none"
  => /\ content.state = "rendered"
     /\ \A f \in SectionNames :
          /\ ~IsArray(Get(response, f))
               => content.sections[f].kind = "placeholder"
          /\ NonEmptyArray(Get(response, f))
               => /\ content.sections[f].kind = "items"
                  /\ Len(content.sections[f].items) = Len(Get(response, f).a)

\* C15: whenever the dialog is open, its job title is the title of a job of
\* the match list shown for the current resume id.
C15_DialogTitleInList ==
  CurDialogOpen => selectedJob \in JobsShown(resumeId, jobsQ)

\* C16: the resume id is null exactly until the first upload of the page
\* session succeeds; a step in which an upload succeeds sets it to the id of
\* that response; every other step, a failing upload and a new submission
\* included, leaves it as it is, except the reload of the page, which
\* starts the session again with null.
C16_ResumeIdIsLastUpload ==
  /\ [](resumeId = Null <=> callbackCount = 0)
  /\ [][ /\ callbackCount' = callbackCount + 1
            => /\ mutation'.status = "success"
               /\ resumeId' = mutation'.data
               /\ resumeId' # Null
         /\ callbackCount' = callbackCount => resumeId' = resumeId
         /\ callbackCount' \notin { callbackCount, callbackCount + 1 }
            => /\ CurRoadmapView = "error"
               /\ resumeId' = Null
               /\ callbackCount' = 0
               /\ mutation'.status = "idle" ]_vars

\* A second upload has succeeded with another id: the resume id is the id
\* of the second response, while the match list of the first is still in
\* the cache.
C16_Witness ==
  /\ callbackCount = 2
  /\ mutation.status = "success"
  /\ mutation.data = "r2"
  /\ resumeId = "r2"
  /\ jobsQ[JobsKey("r1")].status # "absent"

====
